---- MODULE Spec2Model ----
(***************************************************************************)
(* Natural-deduction proof checker: the proof-rule engine applyRule        *)
(* (backend/src/logics/engine.ts) driven by a caller that holds the        *)
(* current ProofState and replaces it by the returned one on success, and  *)
(* the formula parser, tokenize then parse (backend/dist/logics/engine.js).*)
(***************************************************************************)
EXTENDS Integers, Sequences, FiniteSets, TLC

VARIABLES state, call, parser, client

vars == <<state, call, parser, client>>

(***************************************************************************)
(* Bounds of the model.                                                    *)
(***************************************************************************)
\* applyRule is called only while currentSteps is shorter than MaxSteps.
MaxSteps == 4
\* selectedStepIds has at most MaxSelected entries.
MaxSelected == 2
\* Formula strings over the formula characters have at most MaxFormulaLen
\* characters, strings over all characters at most MaxAnyLen.
MaxFormulaLen == 5
MaxAnyLen == 3

MaxNodes == 6

(***************************************************************************)
(* Formula (types.ts): a tagged union ATOM / NOT / BINARY.                 *)
(***************************************************************************)
Atom(n) == [type |-> "ATOM", name |-> n]

Not(f) == [type |-> "NOT", formula |-> f]

Binary(c, l, r) == [type |-> "BINARY", connective |-> c, left |-> l, right |-> r]

And(l, r) == Binary("AND", l, r)

Or(l, r) == Binary("OR", l, r)

Implies(l, r) == Binary("IMPLIES", l, r)

\* The absent optional argument newFormulaAst (undefined) and the goal null.
Undefined == [type |-> "UNDEFINED"]

Null == [type |-> "NULL"]

RuleNames == {"MP", "CI", "CE_LEFT", "CE_RIGHT", "DN", "DI_LEFT", "DI_RIGHT",
              "DS", "II", "ASSUME"}

(***************************************************************************)
(* JSON.stringify of a Formula: the keys in insertion order, as every      *)
(* producer of formulas (parser, engine, client) writes them.              *)
(***************************************************************************)
RECURSIVE Stringify(_)
Stringify(f) ==
    IF f.type = "ATOM" THEN <<"{", "type", "ATOM", "name", f.name, "}">>
    ELSE IF f.type = "NOT"
         THEN <<"{", "type", "NOT", "formula">> \o Stringify(f.formula) \o <<"}">>
         ELSE <<"{", "type", "BINARY", "connective", f.connective, "left">>
              \o Stringify(f.left) \o <<"right">> \o Stringify(f.right) \o <<"}">>

\* Mutant: a comparison that looks at the top-level tag only.
isFormulaEqual_TagOnly(f1, f2) == f1.type = f2.type

isFormulaEqual(f1, f2) == Stringify(f1) = Stringify(f2)

(***************************************************************************)
(* ProofStep and ProofState.  isDischarged is optional: "undefined" when   *)
(* the field is absent, else "false" / "true".                             *)
(***************************************************************************)
Step(id, formula, rule, justification, depth, isDischarged) ==
    [id |-> id, formula |-> formula, rule |-> rule,
     justification |-> justification, depth |-> depth,
     isDischarged |-> isDischarged]

\* Array.prototype.find: the first step with the given id, NotFound if none.
NotFound == [id |-> -1]

\* Mutant: a discharged step is closed and cannot be selected.
find_OpenStepsOnly(steps, id) ==
    IF \E i \in 1..Len(steps) : steps[i].id = id /\ steps[i].isDischarged # "true"
    THEN steps[CHOOSE i \in 1..Len(steps) :
                 /\ steps[i].id = id
                 /\ steps[i].isDischarged # "true"
                 /\ \A j \in 1..(i - 1) : steps[j].id # id]
    ELSE NotFound

find(steps, id) ==
    IF \E i \in 1..Len(steps) : steps[i].id = id
    THEN steps[CHOOSE i \in 1..Len(steps) :
                 /\ steps[i].id = id
                 /\ \A j \in 1..(i - 1) : steps[j].id # id]
    ELSE NotFound

\* selectedStepIds.map(find).filter(step => !!step)
RECURSIVE lookup(_, _)
lookup(steps, ids) ==
    IF ids = <<>> THEN <<>>
    ELSE LET s == find(steps, Head(ids))
         IN  (IF s = NotFound THEN <<>> ELSE <<s>>) \o lookup(steps, Tail(ids))

\* Mutant: the first argument is returned.
MathMax_First(a, b) == a

MathMax(a, b) == IF a >= b THEN a ELSE b

(***************************************************************************)
(* The two ways applyRule ends: a throw, or the return of                  *)
(* {...state, currentSteps: steps, nextId: state.nextId + 1}.  inputAfter  *)
(* is the value of the caller's input object when the call has ended.      *)
(***************************************************************************)
NoState == [type |-> "THROWN"]

\* Mutant: the id counter is advanced on the input before validation.
Thrown_AdvancesInput(kind, st) ==
    [outcome |-> kind, newState |-> NoState,
     inputAfter |-> [st EXCEPT !.nextId = st.nextId + 1]]

Thrown(kind, st) == [outcome |-> kind, newState |-> NoState, inputAfter |-> st]

\* Mutant: nextId advanced by two.
Returned_SkipsId(st, steps) ==
    [outcome |-> "ok",
     newState |-> [st EXCEPT !.currentSteps = steps, !.nextId = st.nextId + 2],
     inputAfter |-> st]

\* Mutant: nextId not advanced.
Returned_KeepsId(st, steps) ==
    [outcome |-> "ok",
     newState |-> [st EXCEPT !.currentSteps = steps],
     inputAfter |-> st]

\* Mutant: the new list is also written into the input (push in place).
Returned_InPlace(st, steps) ==
    [outcome |-> "ok",
     newState |-> [st EXCEPT !.currentSteps = steps, !.nextId = st.nextId + 1],
     inputAfter |-> [st EXCEPT !.currentSteps = steps]]

\* Mutant: the premises field is refreshed from the new step list.
Returned_SyncsPremises(st, steps) ==
    [outcome |-> "ok",
     newState |-> [st EXCEPT !.currentSteps = steps, !.nextId = st.nextId + 1,
                             !.premises = SubSeq(steps, 1, Len(st.premises))],
     inputAfter |-> st]

Returned(st, steps) ==
    [outcome |-> "ok",
     newState |-> [st EXCEPT !.currentSteps = steps, !.nextId = st.nextId + 1],
     inputAfter |-> st]

(***************************************************************************)
(* applyRule, one definition per branch of the rule dispatch.              *)
(***************************************************************************)
\* Mutant: a derived step opens a scope of its own.
NewStep_OneLevelDeeper(st, formula, rule, justification, depth) ==
    Step(st.nextId, formula, rule, justification, depth + 1, "undefined")

NewStep(st, formula, rule, justification, depth) ==
    Step(st.nextId, formula, rule, justification, depth, "undefined")

IsBinary(f, c) == f.type = "BINARY" /\ f.connective = c

\* Mutant: only the first ordering (p1 the implication) is tried.
ApplyMP_FirstOrderOnly(st, rule, ids) ==
    IF Len(ids) # 2 THEN Thrown("ArityMismatch", st)
    ELSE LET premises == lookup(st.currentSteps, ids) IN
      IF Len(premises) # 2 THEN Thrown("StepNotFound", st)
      ELSE LET p1 == premises[1]
               p2 == premises[2]
               depth == MathMax(p1.depth, p2.depth)
           IN IF IsBinary(p1.formula, "IMPLIES")
                 /\ isFormulaEqual(p1.formula.left, p2.formula)
              THEN Returned(st, Append(st.currentSteps,
                       NewStep(st, p1.formula.right, rule, ids, depth)))
              ELSE Thrown("PatternMismatch", st)

ApplyMP(st, rule, ids) ==
    IF Len(ids) # 2 THEN Thrown("ArityMismatch", st)
    ELSE LET premises == lookup(st.currentSteps, ids) IN
      IF Len(premises) # 2 THEN Thrown("StepNotFound", st)
      ELSE LET p1 == premises[1]
               p2 == premises[2]
               depth == MathMax(p1.depth, p2.depth)
           IN IF IsBinary(p1.formula, "IMPLIES")
                 /\ isFormulaEqual(p1.formula.left, p2.formula)
              THEN Returned(st, Append(st.currentSteps,
                       NewStep(st, p1.formula.right, rule, ids, depth)))
              ELSE IF IsBinary(p2.formula, "IMPLIES")
                      /\ isFormulaEqual(p2.formula.left, p1.formula)
              THEN Returned(st, Append(st.currentSteps,
                       NewStep(st, p2.formula.right, rule, ids, depth)))
              ELSE Thrown("PatternMismatch", st)

\* Mutant: the conjuncts are ordered by step id, not by selection.
ApplyCI_OrderedById(st, rule, ids) ==
    IF Len(ids) # 2 THEN Thrown("ArityMismatch", st)
    ELSE LET premises == lookup(st.currentSteps, ids) IN
      IF Len(premises) < 2 THEN Thrown("TypeError", st)
      ELSE LET premiseA == IF premises[1].id <= premises[2].id
                           THEN premises[1] ELSE premises[2]
               premiseB == IF premises[1].id <= premises[2].id
                           THEN premises[2] ELSE premises[1]
           IN Returned(st, Append(st.currentSteps,
                  NewStep(st, And(premiseA.formula, premiseB.formula), rule, ids,
                          MathMax(premiseA.depth, premiseB.depth))))

\* No check that both ids were found: reading .formula of the missing
\* premise throws a TypeError.
ApplyCI(st, rule, ids) ==
    IF Len(ids) # 2 THEN Thrown("ArityMismatch", st)
    ELSE LET premises == lookup(st.currentSteps, ids) IN
      IF Len(premises) < 2 THEN Thrown("TypeError", st)
      ELSE LET premiseA == premises[1]
               premiseB == premises[2]
           IN Returned(st, Append(st.currentSteps,
                  NewStep(st, And(premiseA.formula, premiseB.formula), rule, ids,
                          MathMax(premiseA.depth, premiseB.depth))))

\* Mutant: the left conjunct is returned for CE_RIGHT too.
ApplyCE_AlwaysLeft(st, rule, ids) ==
    IF Len(ids) # 1 THEN Thrown("ArityMismatch", st)
    ELSE LET premise == find(st.currentSteps, ids[1]) IN
      IF premise = NotFound THEN Thrown("StepNotFound", st)
      ELSE IF IsBinary(premise.formula, "AND")
           THEN Returned(st, Append(st.currentSteps,
                    NewStep(st, premise.formula.left, rule, ids, premise.depth)))
           ELSE Thrown("PatternMismatch", st)

\* Mutant: the conjunction itself is appended.
ApplyCE_KeepsConjunction(st, rule, ids) ==
    IF Len(ids) # 1 THEN Thrown("ArityMismatch", st)
    ELSE LET premise == find(st.currentSteps, ids[1]) IN
      IF premise = NotFound THEN Thrown("StepNotFound", st)
      ELSE IF IsBinary(premise.formula, "AND")
           THEN Returned(st, Append(st.currentSteps,
                    NewStep(st, premise.formula, rule, ids, premise.depth)))
           ELSE Thrown("PatternMismatch", st)

ApplyCE(st, rule, ids) ==
    IF Len(ids) # 1 THEN Thrown("ArityMismatch", st)
    ELSE LET premise == find(st.currentSteps, ids[1]) IN
      IF premise = NotFound THEN Thrown("StepNotFound", st)
      ELSE IF IsBinary(premise.formula, "AND")
           THEN Returned(st, Append(st.currentSteps,
                    NewStep(st, IF rule = "CE_LEFT" THEN premise.formula.left
                                                    ELSE premise.formula.right,
                            rule, ids, premise.depth)))
           ELSE Thrown("PatternMismatch", st)

\* Mutant: one negation is enough and only one is removed.
ApplyDN_StripsOne(st, rule, ids) ==
    IF Len(ids) # 1 THEN Thrown("ArityMismatch", st)
    ELSE LET premise == find(st.currentSteps, ids[1]) IN
      IF premise = NotFound THEN Thrown("StepNotFound", st)
      ELSE IF premise.formula.type = "NOT"
           THEN Returned(st, Append(st.currentSteps,
                    NewStep(st, premise.formula.formula, rule, ids, premise.depth)))
           ELSE Thrown("PatternMismatch", st)

ApplyDN(st, rule, ids) ==
    IF Len(ids) # 1 THEN Thrown("ArityMismatch", st)
    ELSE LET premise == find(st.currentSteps, ids[1]) IN
      IF premise = NotFound THEN Thrown("StepNotFound", st)
      ELSE IF premise.formula.type = "NOT" /\ premise.formula.formula.type = "NOT"
           THEN Returned(st, Append(st.currentSteps,
                    NewStep(st, premise.formula.formula.formula, rule, ids,
                            premise.depth)))
           ELSE Thrown("PatternMismatch", st)

\* Mutant: the sides of the disjunction are exchanged.
ApplyDI_SidesSwapped(st, rule, ids, newFormulaAst) ==
    IF Len(ids) # 1 THEN Thrown("ArityMismatch", st)
    ELSE IF newFormulaAst = Undefined THEN Thrown("MissingSecondaryFormula", st)
    ELSE LET premise == find(st.currentSteps, ids[1]) IN
      IF premise = NotFound THEN Thrown("StepNotFound", st)
      ELSE Returned(st, Append(st.currentSteps,
               NewStep(st,
                       Or(IF rule = "DI_LEFT" THEN newFormulaAst ELSE premise.formula,
                          IF rule = "DI_LEFT" THEN premise.formula ELSE newFormulaAst),
                       rule, ids, premise.depth)))

\* Mutant: the secondary formula is checked before the arity.
ApplyDI_SecondaryFirst(st, rule, ids, newFormulaAst) ==
    IF newFormulaAst = Undefined THEN Thrown("MissingSecondaryFormula", st)
    ELSE IF Len(ids) # 1 THEN Thrown("ArityMismatch", st)
    ELSE LET premise == find(st.currentSteps, ids[1]) IN
      IF premise = NotFound THEN Thrown("StepNotFound", st)
      ELSE Returned(st, Append(st.currentSteps,
               NewStep(st,
                       Or(IF rule = "DI_LEFT" THEN premise.formula ELSE newFormulaAst,
                          IF rule = "DI_LEFT" THEN newFormulaAst ELSE premise.formula),
                       rule, ids, premise.depth)))

ApplyDI(st, rule, ids, newFormulaAst) ==
    IF Len(ids) # 1 THEN Thrown("ArityMismatch", st)
    ELSE IF newFormulaAst = Undefined THEN Thrown("MissingSecondaryFormula", st)
    ELSE LET premise == find(st.currentSteps, ids[1]) IN
      IF premise = NotFound THEN Thrown("StepNotFound", st)
      ELSE Returned(st, Append(st.currentSteps,
               NewStep(st,
                       Or(IF rule = "DI_LEFT" THEN premise.formula ELSE newFormulaAst,
                          IF rule = "DI_LEFT" THEN newFormulaAst ELSE premise.formula),
                       rule, ids, premise.depth)))

\* Mutant: the matched disjunct is returned in place of the other one.
ApplyDS_ReturnsMatched(st, rule, ids) ==
    IF Len(ids) # 2 THEN Thrown("ArityMismatch", st)
    ELSE LET premises == lookup(st.currentSteps, ids) IN
      IF Len(premises) # 2 THEN Thrown("StepNotFound", st)
      ELSE LET p1 == premises[1]
               p2 == premises[2]
               hasCandidates == IsBinary(p1.formula, "OR") \/ IsBinary(p2.formula, "OR")
               disjunction == IF IsBinary(p1.formula, "OR") THEN p1.formula ELSE p2.formula
               negation == IF IsBinary(p1.formula, "OR") THEN p2.formula ELSE p1.formula
               depth == MathMax(p1.depth, p2.depth)
           IN IF hasCandidates /\ negation.type = "NOT"
              THEN IF isFormulaEqual(disjunction.left, negation.formula)
                   THEN Returned(st, Append(st.currentSteps,
                            NewStep(st, disjunction.left, rule, ids, depth)))
                   ELSE IF isFormulaEqual(disjunction.right, negation.formula)
                   THEN Returned(st, Append(st.currentSteps,
                            NewStep(st, disjunction.right, rule, ids, depth)))
                   ELSE Thrown("PatternMismatch", st)
              ELSE Thrown("PatternMismatch", st)

\* Mutant: the disjunction is looked for in the first selected step only.
ApplyDS_FirstOrderOnly(st, rule, ids) ==
    IF Len(ids) # 2 THEN Thrown("ArityMismatch", st)
    ELSE LET premises == lookup(st.currentSteps, ids) IN
      IF Len(premises) # 2 THEN Thrown("StepNotFound", st)
      ELSE LET p1 == premises[1]
               p2 == premises[2]
               depth == MathMax(p1.depth, p2.depth)
           IN IF IsBinary(p1.formula, "OR") /\ p2.formula.type = "NOT"
              THEN IF isFormulaEqual(p1.formula.left, p2.formula.formula)
                   THEN Returned(st, Append(st.currentSteps,
                            NewStep(st, p1.formula.right, rule, ids, depth)))
                   ELSE IF isFormulaEqual(p1.formula.right, p2.formula.formula)
                   THEN Returned(st, Append(st.currentSteps,
                            NewStep(st, p1.formula.left, rule, ids, depth)))
                   ELSE Thrown("PatternMismatch", st)
              ELSE Thrown("PatternMismatch", st)

ApplyDS(st, rule, ids) ==
    IF Len(ids) # 2 THEN Thrown("ArityMismatch", st)
    ELSE LET premises == lookup(st.currentSteps, ids) IN
      IF Len(premises) # 2 THEN Thrown("StepNotFound", st)
      ELSE LET p1 == premises[1]
               p2 == premises[2]
               hasCandidates == IsBinary(p1.formula, "OR") \/ IsBinary(p2.formula, "OR")
               disjunction == IF IsBinary(p1.formula, "OR") THEN p1.formula ELSE p2.formula
               negation == IF IsBinary(p1.formula, "OR") THEN p2.formula ELSE p1.formula
               depth == MathMax(p1.depth, p2.depth)
           IN IF hasCandidates /\ negation.type = "NOT"
              THEN IF isFormulaEqual(disjunction.left, negation.formula)
                   THEN Returned(st, Append(st.currentSteps,
                            NewStep(st, disjunction.right, rule, ids, depth)))
                   ELSE IF isFormulaEqual(disjunction.right, negation.formula)
                   THEN Returned(st, Append(st.currentSteps,
                            NewStep(st, disjunction.left, rule, ids, depth)))
                   ELSE Thrown("PatternMismatch", st)
              ELSE Thrown("PatternMismatch", st)

(***************************************************************************)
(* II: which selected step is the assumption, the new step, the copy of    *)
(* the step list with the assumption marked discharged.                    *)
(***************************************************************************)
\* Mutant: the step with the smaller id is always the assumption.
IIRoles_SmallerId(stepA, stepB) ==
    IF stepA.id < stepB.id
    THEN [assumptionStep |-> stepA, conclusionStep |-> stepB]
    ELSE [assumptionStep |-> stepB, conclusionStep |-> stepA]

\* Mutant: when exactly one step is tagged ASSUME, the other one is the
\* assumption.
IIRoles_PrefersDerived(stepA, stepB) ==
    IF stepA.rule = "ASSUME" /\ stepB.rule # "ASSUME"
    THEN [assumptionStep |-> stepB, conclusionStep |-> stepA]
    ELSE IF stepB.rule = "ASSUME" /\ stepA.rule # "ASSUME"
    THEN [assumptionStep |-> stepA, conclusionStep |-> stepB]
    ELSE IF stepA.id < stepB.id
    THEN [assumptionStep |-> stepA, conclusionStep |-> stepB]
    ELSE [assumptionStep |-> stepB, conclusionStep |-> stepA]

\* Mutant: when the ASSUME tags do not decide, the first selected step is the
\* assumption.
IIRoles_FirstSelected(stepA, stepB) ==
    IF stepB.rule = "ASSUME" /\ stepA.rule # "ASSUME"
    THEN [assumptionStep |-> stepB, conclusionStep |-> stepA]
    ELSE [assumptionStep |-> stepA, conclusionStep |-> stepB]

IIRoles(stepA, stepB) ==
    IF stepA.rule = "ASSUME" /\ stepB.rule # "ASSUME"
    THEN [assumptionStep |-> stepA, conclusionStep |-> stepB]
    ELSE IF stepB.rule = "ASSUME" /\ stepA.rule # "ASSUME"
    THEN [assumptionStep |-> stepB, conclusionStep |-> stepA]
    ELSE IF stepA.id < stepB.id
    THEN [assumptionStep |-> stepA, conclusionStep |-> stepB]
    ELSE [assumptionStep |-> stepB, conclusionStep |-> stepA]

\* Mutant: the new step cites itself in place of the conclusion.
IINewStep_CitesItself(st, assumptionStep, conclusionStep) ==
    Step(st.nextId, Implies(assumptionStep.formula, conclusionStep.formula), "II",
         <<assumptionStep.id, st.nextId>>, 0, "false")

IINewStep(st, assumptionStep, conclusionStep) ==
    Step(st.nextId, Implies(assumptionStep.formula, conclusionStep.formula), "II",
         <<assumptionStep.id, conclusionStep.id>>, 0, "false")

\* Mutant: the other steps are copied with the flag cleared.
updatedSteps_ClearsOthers(steps, assumptionId) ==
    [i \in 1..Len(steps) |->
        IF steps[i].id = assumptionId
        THEN [steps[i] EXCEPT !.isDischarged = "true"]
        ELSE [steps[i] EXCEPT !.isDischarged = "false"]]

\* Mutant: every step tagged ASSUME is marked, not only the assumption.
updatedSteps_AllAssumptions(steps, assumptionId) ==
    [i \in 1..Len(steps) |->
        IF steps[i].rule = "ASSUME"
        THEN [steps[i] EXCEPT !.isDischarged = "true"]
        ELSE steps[i]]

\* state.currentSteps.map(step => step.id === id ? {...step, isDischarged: true} : step)
updatedSteps(steps, assumptionId) ==
    [i \in 1..Len(steps) |->
        IF steps[i].id = assumptionId
        THEN [steps[i] EXCEPT !.isDischarged = "true"]
        ELSE steps[i]]

ApplyII(st, rule, ids) ==
    IF Len(ids) # 2 THEN Thrown("ArityMismatch", st)
    ELSE LET stepA == find(st.currentSteps, ids[1])
             stepB == find(st.currentSteps, ids[2])
         IN IF stepA = NotFound \/ stepB = NotFound THEN Thrown("StepNotFound", st)
            ELSE LET roles == IIRoles(stepA, stepB)
                     newStep == IINewStep(st, roles.assumptionStep, roles.conclusionStep)
                 IN Returned(st, Append(updatedSteps(st.currentSteps,
                                                     roles.assumptionStep.id),
                                        newStep))

\* Mutant: a rule name no branch tests falls into the last branch written
\* before the final throw.
applyRule_LastBranchCatchesAll(st, rule, ids, newFormulaAst) ==
    IF rule = "MP" THEN ApplyMP(st, rule, ids)
    ELSE IF rule = "CI" THEN ApplyCI(st, rule, ids)
    ELSE IF rule \in {"CE_LEFT", "CE_RIGHT"} THEN ApplyCE(st, rule, ids)
    ELSE IF rule = "DN" THEN ApplyDN(st, rule, ids)
    ELSE IF rule \in {"DI_LEFT", "DI_RIGHT"} THEN ApplyDI(st, rule, ids, newFormulaAst)
    ELSE IF rule = "DS" THEN ApplyDS(st, rule, ids)
    ELSE IF rule = "II" THEN ApplyII(st, rule, ids)
    ELSE ApplyCI(st, rule, ids)

applyRule(st, rule, ids, newFormulaAst) ==
    IF rule = "MP" THEN ApplyMP(st, rule, ids)
    ELSE IF rule = "CI" THEN ApplyCI(st, rule, ids)
    ELSE IF rule \in {"CE_LEFT", "CE_RIGHT"} THEN ApplyCE(st, rule, ids)
    ELSE IF rule = "DN" THEN ApplyDN(st, rule, ids)
    ELSE IF rule \in {"DI_LEFT", "DI_RIGHT"} THEN ApplyDI(st, rule, ids, newFormulaAst)
    ELSE IF rule = "DS" THEN ApplyDS(st, rule, ids)
    ELSE IF rule = "II" THEN ApplyII(st, rule, ids)
    ELSE Thrown("NotImplemented", st)

\* applyRule as compiled in dist/logics/engine.js: the same branches up to DS,
\* then the final throw.
distApplyRule(st, rule, ids, newFormulaAst) ==
    IF rule = "MP" THEN ApplyMP(st, rule, ids)
    ELSE IF rule = "CI" THEN ApplyCI(st, rule, ids)
    ELSE IF rule \in {"CE_LEFT", "CE_RIGHT"} THEN ApplyCE(st, rule, ids)
    ELSE IF rule = "DN" THEN ApplyDN(st, rule, ids)
    ELSE IF rule \in {"DI_LEFT", "DI_RIGHT"} THEN ApplyDI(st, rule, ids, newFormulaAst)
    ELSE IF rule = "DS" THEN ApplyDS(st, rule, ids)
    ELSE Thrown("NotImplemented", st)

(***************************************************************************)
(* Seed states: premise steps tagged ASSUME with an empty justification,   *)
(* distinct ids and nextId above them all.                                 *)
(***************************************************************************)
P == Atom("P")

Q == Atom("Q")

Premise(id, formula, depth) == Step(id, formula, "ASSUME", <<>>, depth, "undefined")

Seed(steps, goal, nextId) ==
    [premises |-> steps, goal |-> goal, currentSteps |-> steps, nextId |-> nextId]

\* The client's INITIAL_PROOF_STATE: P -> Q and P, no goal.
INITIAL_PROOF_STATE ==
    Seed(<<Premise(1, Implies(P, Q), 0), Premise(2, P, 0)>>, Null, 3)

Seeds ==
    { INITIAL_PROOF_STATE,
      Seed(<<Premise(1, Or(P, Q), 1), Premise(2, Not(P), 0)>>, P, 3),
      Seed(<<Premise(2, Not(Not(P)), 1)>>, P, 4),
      Seed(<<Premise(1, And(P, Q), 0)>>, Implies(P, Q), 2) }

\* The secondary formula a call may carry: the client sends one with the DI
\* rules only (handleApplyDI), where it may also be missing.
SecondaryFormulas(rule) ==
    IF rule \in {"DI_LEFT", "DI_RIGHT"} THEN {Undefined, Q} ELSE {Undefined}

RECURSIVE SeqsUpTo(_, _)
SeqsUpTo(S, n) ==
    IF n = 0 THEN {<<>>}
    ELSE LET shorter == SeqsUpTo(S, n - 1)
         IN  shorter \cup {Append(q, x) : q \in shorter, x \in S}

\* Ids a caller may select: those of the steps present, and one absent id.
SelectableIds(st) == {st.currentSteps[i].id : i \in 1..Len(st.currentSteps)} \cup {st.nextId}

\* No call is awaiting its response.
NoCall ==
    [rule |-> "none", selectedStepIds |-> <<>>, newFormulaAst |-> Undefined,
     input |-> NoState, result |-> Thrown("none", NoState)]

\* The client's useState values for the selection and the request flag.
NoClient == [selectedSteps |-> <<>>, isLoading |-> FALSE]

\* The parser at rest.
NoParse == [stage |-> "idle", formulaString |-> <<>>, tokens |-> <<>>,
            error |-> "none", formula |-> Undefined, index |-> 0, position |-> 0]

Init ==
    /\ state \in Seeds
    /\ call = NoCall
    /\ parser = NoParse
    /\ client = NoClient

\* One call of applyRule on the caller's state (server.ts POST /api/apply-rule
\* on behalf of the client's callApplyRuleAPI).  call records the arguments, the
\* input as it was before the call and the result; state is the input object
\* as the call leaves it.
ApplyRuleCall ==
    /\ call = NoCall
    /\ Len(state.currentSteps) < MaxSteps
    /\ \E rule \in RuleNames, ids \in SeqsUpTo(SelectableIds(state), MaxSelected) :
         \E newFormulaAst \in SecondaryFormulas(rule) :
           LET result == applyRule(state, rule, ids, newFormulaAst)
           IN /\ call' = [rule |-> rule, selectedStepIds |-> ids,
                          newFormulaAst |-> newFormulaAst,
                          input |-> state, result |-> result]
              /\ state' = result.inputAfter
    /\ UNCHANGED <<parser, client>>

\* The client's handleAddPremise, between two calls: a parsed formula is
\* appended as a step tagged ASSUME with the state's nextId.
PremiseFormulas == {Not(Q)}

handleAddPremise ==
    /\ call = NoCall
    /\ Len(state.currentSteps) < MaxSteps
    /\ \E parsedAst \in PremiseFormulas :
         state' = [state EXCEPT
                     !.currentSteps = Append(state.currentSteps,
                                             Premise(state.nextId, parsedAst, 0)),
                     !.nextId = state.nextId + 1]
    /\ UNCHANGED <<call, parser, client>>

\* The caller handles the response: setProofState(data.newState) on success,
\* nothing but an alert on failure.
HandleResponse ==
    /\ call # NoCall
    /\ state' = IF call.result.outcome = "ok" THEN call.result.newState ELSE state
    /\ call' = NoCall
    /\ UNCHANGED <<parser, client>>

Next == ApplyRuleCall \/ HandleResponse \/ handleAddPremise

Spec == Init /\ [][Next]_vars

TypeOK ==
    /\ state.nextId \in Nat
    /\ Len(state.currentSteps) <= MaxSteps

(***************************************************************************)
(* Vocabulary of the properties.                                           *)
(***************************************************************************)
Called == call # NoCall

Succeeded == Called /\ call.result.outcome = "ok"

Failed == Called /\ call.result.outcome # "ok"

Last(seq) == seq[Len(seq)]

\* The step a successful call appended.
AppendedStep == Last(call.result.newState.currentSteps)

StepIds(st) == {st.currentSteps[i].id : i \in 1..Len(st.currentSteps)}

Derived(st) == \E i \in 1..Len(st.currentSteps) : st.currentSteps[i].rule # "ASSUME"

\* C1: every successful applyRule call returns a state whose nextId is the
\* input's nextId + 1 and whose appended step has the input's nextId as id.
C1_IdMonotonicity ==
    Succeeded =>
        /\ call.result.newState.nextId = call.input.nextId + 1
        /\ AppendedStep.id = call.input.nextId

C1_Witness ==
    /\ Succeeded
    /\ call.rule = "II"
    /\ Derived(call.input)
    /\ call.input.nextId > Len(call.input.currentSteps) + 1

\* C2: in every state reachable from a seed by successful and failed calls,
\* nextId exceeds every id in currentSteps and no two steps share an id.
IdsWellFormed(st) ==
    /\ \A i \in 1..Len(st.currentSteps) : st.currentSteps[i].id < st.nextId
    /\ \A i, j \in 1..Len(st.currentSteps) :
          i # j => st.currentSteps[i].id # st.currentSteps[j].id

C2_IdsBelowNextIdAndUnique ==
    /\ IdsWellFormed(state)
    /\ Succeeded => IdsWellFormed(call.result.newState)

\* A failed call on a state that earlier successful calls have grown.
C2_Witness ==
    /\ Failed
    /\ Len(state.currentSteps) >= 3
    /\ Derived(state)

\* C3: every id in a step's justification is the id of a step that stands
\* earlier in currentSteps; no step cites itself or a later step.
JustificationsPointBack(st) ==
    \A i \in 1..Len(st.currentSteps) :
        \A k \in 1..Len(st.currentSteps[i].justification) :
            \E j \in 1..(i - 1) :
                st.currentSteps[j].id = st.currentSteps[i].justification[k]

C3_JustificationsCiteEarlierSteps ==
    /\ JustificationsPointBack(state)
    /\ Succeeded => JustificationsPointBack(call.result.newState)

\* An II step whose computed justification is the selection reversed.
C3_Witness ==
    /\ Succeeded
    /\ call.rule = "II"
    /\ AppendedStep.justification = <<call.selectedStepIds[2], call.selectedStepIds[1]>>
    /\ call.selectedStepIds[1] # call.selectedStepIds[2]

\* C4: a successful call returns the input's steps with exactly one step
\* appended; every earlier step keeps its position, id, formula, rule,
\* justification and depth, and isDischarged changes for at most one step and
\* only under II.
SameButDischarge(s, t) ==
    /\ s.id = t.id
    /\ s.formula = t.formula
    /\ s.rule = t.rule
    /\ s.justification = t.justification
    /\ s.depth = t.depth

FlagChanged ==
    {i \in 1..Len(call.input.currentSteps) :
        call.result.newState.currentSteps[i].isDischarged
            # call.input.currentSteps[i].isDischarged}

C4_AppendOnly ==
    Succeeded =>
        /\ Len(call.result.newState.currentSteps) = Len(call.input.currentSteps) + 1
        /\ \A i \in 1..Len(call.input.currentSteps) :
              SameButDischarge(call.result.newState.currentSteps[i],
                               call.input.currentSteps[i])
        /\ Cardinality(FlagChanged) <= 1
        /\ FlagChanged # {} => call.rule = "II"

\* An II call on a state with two undischarged ASSUME steps flips one flag.
C4_Witness ==
    /\ Succeeded
    /\ call.rule = "II"
    /\ Cardinality(FlagChanged) = 1
    /\ Cardinality({i \in 1..Len(call.input.currentSteps) :
                      call.input.currentSteps[i].rule = "ASSUME"}) = 2

\* C5: a failed call produces no new state and leaves the caller's state as it
\* was, when the call ends and after the caller has handled the failure.
C5_FailureLeavesStateUntouched ==
    [][/\ Failed' => (call'.result.newState = NoState /\ state' = call'.input)
       /\ Failed => state' = call.input]_vars

C5_Witness ==
    /\ Failed
    /\ call.result.outcome = "PatternMismatch"
    /\ call.rule = "DS"
    /\ Derived(state)

\* C6: after a successful call, II included, the input state has the same
\* steps, field by field, and the same nextId as before the call.
C6_InputNotMutated ==
    Succeeded => state = call.input

\* An II call that returned a list with a flipped flag.
C6_Witness ==
    /\ Succeeded
    /\ call.rule = "II"
    /\ FlagChanged # {}
    /\ state = call.input

(***************************************************************************)
(* Modus ponens and implication introduction.                              *)
(***************************************************************************)
\* The call selected two ids and both resolve to steps of the input.
TwoStepsSelected(rule) ==
    /\ Called
    /\ call.rule = rule
    /\ Len(call.selectedStepIds) = 2
    /\ \A k \in 1..2 : call.selectedStepIds[k] \in StepIds(call.input)

SelectedStep(k) == find(call.input.currentSteps, call.selectedStepIds[k])

\* imp is Implies(A,B) and ant is structurally A.
MPPattern(imp, ant) ==
    /\ imp.formula.type = "BINARY"
    /\ imp.formula.connective = "IMPLIES"
    /\ imp.formula.left = ant.formula

SwappedIds == <<call.selectedStepIds[2], call.selectedStepIds[1]>>

\* C8: MP on two existing steps, one Implies(A,B) and the other structurally
\* equal to A, in either selection order, succeeds and appends B; when neither
\* ordering matches it fails with PatternMismatch.
C8_ModusPonens ==
    TwoStepsSelected("MP") =>
        LET s1 == SelectedStep(1)
            s2 == SelectedStep(2)
        IN /\ MPPattern(s1, s2) =>
                 Succeeded /\ AppendedStep.formula = s1.formula.right
           /\ MPPattern(s2, s1) =>
                 Succeeded /\ AppendedStep.formula = s2.formula.right
           /\ (~MPPattern(s1, s2) /\ ~MPPattern(s2, s1)) =>
                 call.result.outcome = "PatternMismatch"

\* The implication is the second selected step, and its consequent is compound.
C8_Witness ==
    /\ TwoStepsSelected("MP")
    /\ MPPattern(SelectedStep(2), SelectedStep(1))
    /\ Succeeded
    /\ AppendedStep.formula.type = "BINARY"

\* C9 as stated: MP with the two ids swapped returns the identical result,
\* appended step included.
C9_SwapGivesIdenticalResult ==
    (TwoStepsSelected("MP")
       /\ (MPPattern(SelectedStep(1), SelectedStep(2))
           \/ MPPattern(SelectedStep(2), SelectedStep(1)))) =>
        applyRule(call.input, "MP", SwappedIds, call.newFormulaAst) = call.result

\* C9 amended: MP with the two ids swapped succeeds as well and returns the
\* same state except for the appended step's justification, which lists the
\* ids in the order they were selected.
C9_SwapGivesSameResultButJustification ==
    (TwoStepsSelected("MP")
       /\ (MPPattern(SelectedStep(1), SelectedStep(2))
           \/ MPPattern(SelectedStep(2), SelectedStep(1)))) =>
        LET swapped == applyRule(call.input, "MP", SwappedIds, call.newFormulaAst)
            n == Len(call.input.currentSteps) + 1
        IN /\ Succeeded
           /\ AppendedStep.justification = call.selectedStepIds
           /\ swapped.outcome = "ok"
           /\ swapped.inputAfter = call.result.inputAfter
           /\ swapped.newState =
                 [call.result.newState EXCEPT
                     !.currentSteps[n].justification = SwappedIds]

C9_Witness ==
    /\ TwoStepsSelected("MP")
    /\ MPPattern(SelectedStep(1), SelectedStep(2))
    /\ Succeeded
    /\ Derived(call.input)

\* C10: II on two existing steps takes as assumption the one tagged ASSUME
\* when exactly one is, else the one with the smaller id; it succeeds, marks
\* the assumption discharged, leaves every other earlier step unchanged and
\* appends Implies(assumption, conclusion) with rule II, justification
\* <<assumption id, conclusion id>> and depth 0.
ExpectedAssumptionIsFirst(s1, s2) ==
    IF (s1.rule = "ASSUME") # (s2.rule = "ASSUME")
    THEN s1.rule = "ASSUME"
    ELSE s1.id <= s2.id

C10_ImplicationIntroduction ==
    TwoStepsSelected("II") =>
        LET s1 == SelectedStep(1)
            s2 == SelectedStep(2)
            assumption == IF ExpectedAssumptionIsFirst(s1, s2) THEN s1 ELSE s2
            conclusion == IF ExpectedAssumptionIsFirst(s1, s2) THEN s2 ELSE s1
            before == call.input.currentSteps
            after == call.result.newState.currentSteps
        IN /\ Succeeded
           /\ Len(after) = Len(before) + 1
           /\ \A i \in 1..Len(before) :
                 after[i] = IF before[i].id = assumption.id
                            THEN [before[i] EXCEPT !.isDischarged = "true"]
                            ELSE before[i]
           /\ AppendedStep.formula = Implies(assumption.formula, conclusion.formula)
           /\ AppendedStep.rule = "II"
           /\ AppendedStep.justification = <<assumption.id, conclusion.id>>
           /\ AppendedStep.depth = 0

\* Exactly one selected step is tagged ASSUME, it was selected second and has
\* the larger id.
C10_Witness ==
    /\ TwoStepsSelected("II")
    /\ Succeeded
    /\ SelectedStep(1).rule # "ASSUME"
    /\ SelectedStep(2).rule = "ASSUME"
    /\ SelectedStep(2).id > SelectedStep(1).id
    /\ AppendedStep.justification = SwappedIds

(***************************************************************************)
(* Disjunctive syllogism.                                                  *)
(***************************************************************************)
IsOr(s) == s.formula.type = "BINARY" /\ s.formula.connective = "OR"

\* Exactly one of the two selected steps is Or(A,B), the other is Not(X) and
\* X is structurally A or B.
DSPattern(s1, s2) ==
    /\ IsOr(s1) # IsOr(s2)
    /\ LET d == IF IsOr(s1) THEN s1 ELSE s2
           o == IF IsOr(s1) THEN s2 ELSE s1
       IN /\ o.formula.type = "NOT"
          /\ (o.formula.formula = d.formula.left \/ o.formula.formula = d.formula.right)

\* C11: DS on two existing steps, exactly one Or(A,B) and the other Not(X), in
\* either selection order, succeeds and appends B when X is A, A when X is B;
\* in every other case it fails with PatternMismatch.
C11_DisjunctiveSyllogism ==
    TwoStepsSelected("DS") =>
        LET s1 == SelectedStep(1)
            s2 == SelectedStep(2)
            d == IF IsOr(s1) THEN s1 ELSE s2
            o == IF IsOr(s1) THEN s2 ELSE s1
        IN IF DSPattern(s1, s2)
           THEN /\ Succeeded
                /\ o.formula.formula = d.formula.left =>
                      AppendedStep.formula = d.formula.right
                /\ o.formula.formula = d.formula.right =>
                      AppendedStep.formula = d.formula.left
           ELSE call.result.outcome = "PatternMismatch"

\* The negation was selected first and negates the right disjunct.
C11_Witness ==
    /\ TwoStepsSelected("DS")
    /\ Succeeded
    /\ SelectedStep(1).formula.type = "NOT"
    /\ SelectedStep(1).formula.formula = SelectedStep(2).formula.right
    /\ AppendedStep.formula = SelectedStep(2).formula.left
    /\ AppendedStep.formula # SelectedStep(2).formula.right

(***************************************************************************)
(* Conjunction elimination and introduction, disjunction introduction,     *)
(* double negation.                                                        *)
(***************************************************************************)
\* The call selected one id and it resolves to a step of the input.
OneStepSelected(rules) ==
    /\ Called
    /\ call.rule \in rules
    /\ Len(call.selectedStepIds) = 1
    /\ call.selectedStepIds[1] \in StepIds(call.input)

IsAnd(f) == f.type = "BINARY" /\ f.connective = "AND"

\* C12: on an existing step And(A,B), CE_LEFT appends A and CE_RIGHT appends B;
\* on a step that is not an And both fail with PatternMismatch.
C12_ConjunctionElimination ==
    OneStepSelected({"CE_LEFT", "CE_RIGHT"}) =>
        LET f == SelectedStep(1).formula
        IN IF IsAnd(f)
           THEN /\ Succeeded
                /\ call.rule = "CE_LEFT" => AppendedStep.formula = f.left
                /\ call.rule = "CE_RIGHT" => AppendedStep.formula = f.right
           ELSE call.result.outcome = "PatternMismatch"

C12_Witness ==
    /\ OneStepSelected({"CE_RIGHT"})
    /\ Succeeded
    /\ AppendedStep.formula = SelectedStep(1).formula.right
    /\ SelectedStep(1).formula.left # SelectedStep(1).formula.right

\* C13: CI on any two existing selected steps succeeds and appends
\* And(first.formula, second.formula), first and second in selection order.
C13_ConjunctionIntroduction ==
    TwoStepsSelected("CI") =>
        /\ Succeeded
        /\ AppendedStep.formula = And(SelectedStep(1).formula, SelectedStep(2).formula)

\* The step selected first has the larger id and another formula.
C13_Witness ==
    /\ TwoStepsSelected("CI")
    /\ Succeeded
    /\ SelectedStep(1).id > SelectedStep(2).id
    /\ SelectedStep(1).formula # SelectedStep(2).formula

\* C14: on an existing step with formula P and a supplied secondary formula Q,
\* DI_LEFT appends Or(P,Q) and DI_RIGHT appends Or(Q,P); called with one id and
\* no secondary formula both fail with MissingSecondaryFormula and append
\* nothing.
C14_DisjunctionIntroduction ==
    /\ (OneStepSelected({"DI_LEFT", "DI_RIGHT"}) /\ call.newFormulaAst # Undefined) =>
          /\ Succeeded
          /\ call.rule = "DI_LEFT" =>
                AppendedStep.formula = Or(SelectedStep(1).formula, call.newFormulaAst)
          /\ call.rule = "DI_RIGHT" =>
                AppendedStep.formula = Or(call.newFormulaAst, SelectedStep(1).formula)
    /\ (Called /\ call.rule \in {"DI_LEFT", "DI_RIGHT"}
          /\ Len(call.selectedStepIds) = 1 /\ call.newFormulaAst = Undefined) =>
          /\ call.result.outcome = "MissingSecondaryFormula"
          /\ call.result.newState = NoState
          /\ state = call.input

C14_Witness ==
    /\ OneStepSelected({"DI_RIGHT"})
    /\ Succeeded
    /\ call.newFormulaAst # SelectedStep(1).formula
    /\ AppendedStep.formula.left = call.newFormulaAst

\* C15: on an existing step Not(Not(A)), DN appends A; on a step that is not
\* the negation of a negation it fails with PatternMismatch.
C15_DoubleNegation ==
    OneStepSelected({"DN"}) =>
        LET f == SelectedStep(1).formula
        IN IF f.type = "NOT" /\ f.formula.type = "NOT"
           THEN Succeeded /\ f = Not(Not(AppendedStep.formula))
           ELSE call.result.outcome = "PatternMismatch"

C15_Witness ==
    /\ OneStepSelected({"DN"})
    /\ Succeeded
    /\ SelectedStep(1).formula = Not(Not(AppendedStep.formula))

(***************************************************************************)
(* Preconditions common to the rules: arity, then step lookup.             *)
(***************************************************************************)
\* The rules applyRule implements and the number of ids each requires.
ImplementedRules == RuleNames \ {"ASSUME"}

Arity(rule) == IF rule \in {"MP", "CI", "DS", "II"} THEN 2 ELSE 1

SomeIdAbsent ==
    \E k \in 1..Len(call.selectedStepIds) :
        call.selectedStepIds[k] \notin StepIds(call.input)

\* C16: a call of any implemented rule with the right number of ids (and a
\* secondary formula for DI) in which some selected id resolves to no step
\* fails with StepNotFound and with no other kind of failure.
C16_AbsentIdIsStepNotFound ==
    (/\ Called
     /\ call.rule \in ImplementedRules
     /\ Len(call.selectedStepIds) = Arity(call.rule)
     /\ call.rule \in {"DI_LEFT", "DI_RIGHT"} => call.newFormulaAst # Undefined
     /\ SomeIdAbsent)
        => call.result.outcome = "StepNotFound"

\* C17: a call of an implemented rule with a number of ids other than the
\* rule's arity fails with ArityMismatch, whether or not the ids exist, the
\* formulas match or a secondary formula is present; with the right number it
\* does not.
C17_ArityCheckedFirst ==
    (Called /\ call.rule \in ImplementedRules) =>
        (call.result.outcome = "ArityMismatch"
            <=> Len(call.selectedStepIds) # Arity(call.rule))

\* DI with too many ids, one of them absent, and no secondary formula.
C17_Witness ==
    /\ Called
    /\ call.rule = "DI_LEFT"
    /\ Len(call.selectedStepIds) = 2
    /\ SomeIdAbsent
    /\ call.newFormulaAst = Undefined
    /\ call.result.outcome = "ArityMismatch"

\* C18: the appended step's depth is the larger of the two selected steps'
\* depths for MP, CI and DS, the selected step's depth for CE_LEFT, CE_RIGHT,
\* DN, DI_LEFT and DI_RIGHT, and 0 for II.
C18_DepthOfNewStep ==
    Succeeded =>
        /\ call.rule \in {"MP", "CI", "DS"} =>
              /\ AppendedStep.depth >= SelectedStep(1).depth
              /\ AppendedStep.depth >= SelectedStep(2).depth
              /\ AppendedStep.depth \in {SelectedStep(1).depth, SelectedStep(2).depth}
        /\ call.rule \in {"CE_LEFT", "CE_RIGHT", "DN", "DI_LEFT", "DI_RIGHT"} =>
              AppendedStep.depth = SelectedStep(1).depth
        /\ call.rule = "II" => AppendedStep.depth = 0

\* The deeper of the two premises was selected second.
C18_Witness ==
    /\ Succeeded
    /\ call.rule = "DS"
    /\ SelectedStep(2).depth > SelectedStep(1).depth
    /\ AppendedStep.depth = SelectedStep(2).depth

\* C19: a call with the rule name ASSUME fails for every state and selection,
\* and no successful call appends a step tagged ASSUME.
C19_AssumeIsNoRule ==
    /\ (Called /\ call.rule \notin ImplementedRules) =>
          call.result.outcome = "NotImplemented"
    /\ Succeeded => AppendedStep.rule # "ASSUME"

\* ASSUME called with two existing steps selected.
C19_Witness ==
    /\ TwoStepsSelected("ASSUME")
    /\ Failed
    /\ call.selectedStepIds[1] # call.selectedStepIds[2]

(***************************************************************************)
(* The lexer.  A formula string is a sequence of characters; the four      *)
(* non-ASCII characters are written by name.                               *)
(***************************************************************************)
NotSign == "NOT_SIGN"

Wedge == "WEDGE"

Vee == "VEE"

Arrow == "ARROW"

\* Mutant: digits are skipped like whitespace.
IsWhitespace_AlsoDigits(char) == char \in {" ", "1"}

\* /\s/ and /[A-Z]/
IsWhitespace(char) == char = " "

IsUpperCase(char) ==
    char \in {"A", "B", "C", "D", "E", "F", "G", "H", "I", "J", "K", "L", "M",
              "N", "O", "P", "Q", "R", "S", "T", "U", "V", "W", "X", "Y", "Z"}

Token(type, value) == [type |-> type, value |-> value]

EOF == Token("EOF", "")

\* tokenize throws: no token sequence, the offending position (from 0).
LexError(kind, position) == [error |-> kind, tokens |-> <<>>, position |-> position - 1]

\* The while loop of tokenize from the 1-based cursor position on.
RECURSIVE tokenizeFrom(_, _, _)
tokenizeFrom(input, position, tokens) ==
    IF position > Len(input)
    THEN [error |-> "none", tokens |-> Append(tokens, EOF), position |-> position - 1]
    ELSE LET char == input[position] IN
      IF IsWhitespace(char) THEN tokenizeFrom(input, position + 1, tokens)
      ELSE IF char = "("
      THEN tokenizeFrom(input, position + 1, Append(tokens, Token("LEFT_PAREN", char)))
      ELSE IF char = ")"
      THEN tokenizeFrom(input, position + 1, Append(tokens, Token("RIGHT_PAREN", char)))
      ELSE IF char = "~" \/ char = NotSign
      THEN tokenizeFrom(input, position + 1, Append(tokens, Token("NOT", char)))
      ELSE IF char = Wedge
      THEN tokenizeFrom(input, position + 1, Append(tokens, Token("AND", char)))
      ELSE IF char = Vee
      THEN tokenizeFrom(input, position + 1, Append(tokens, Token("OR", char)))
      ELSE IF char = "-"
      THEN IF position + 1 <= Len(input) /\ input[position + 1] = ">"
           THEN tokenizeFrom(input, position + 2, Append(tokens, Token("IMPLIES", "->")))
           ELSE LexError("InvalidCharacter", position)
      ELSE IF char = Arrow
      THEN tokenizeFrom(input, position + 1, Append(tokens, Token("IMPLIES", char)))
      ELSE IF IsUpperCase(char)
      THEN tokenizeFrom(input, position + 1, Append(tokens, Token("PROPOSITION", char)))
      ELSE LexError("UnrecognizedCharacter", position)

\* Mutant: the closing tokens.push({ type: 'EOF', value: '' }) is left out.
tokenize_NoEOF(input) ==
    LET lexed == tokenizeFrom(input, 1, <<>>)
    IN IF lexed.error = "none"
       THEN [lexed EXCEPT !.tokens = SubSeq(lexed.tokens, 1, Len(lexed.tokens) - 1)]
       ELSE lexed

tokenize(input) == tokenizeFrom(input, 1, <<>>)

(***************************************************************************)
(* The recursive-descent parser.  Each function takes the token index it   *)
(* starts at and returns the formula and the index it stopped at, or the   *)
(* error it threw.  Reading .type of a token past the end is a TypeError.  *)
(***************************************************************************)
NoFormula == [type |-> "NONE"]

\* Mutant: every parsing function wraps what it returns in a node of its own.
Parsed_NodePerLevel(formula, index) ==
    [error |-> "none", formula |-> Not(formula), index |-> index]

Parsed(formula, index) == [error |-> "none", formula |-> formula, index |-> index]

ParseError(kind, index) == [error |-> kind, formula |-> NoFormula, index |-> index]

RECURSIVE parseImplication(_, _)
RECURSIVE implicationLoop(_, _, _)
RECURSIVE parseDisjunction(_, _)
RECURSIVE disjunctionLoop(_, _, _)
RECURSIVE parseConjunction(_, _)
RECURSIVE conjunctionLoop(_, _, _)
RECURSIVE parseUnary(_, _)

parseUnary(tokens, index) ==
    IF index > Len(tokens) THEN ParseError("TypeError", index)
    ELSE LET token == tokens[index] IN
      IF token.type = "NOT"
      THEN LET inner == parseUnary(tokens, index + 1)
           IN IF inner.error # "none" THEN inner
              ELSE Parsed(Not(inner.formula), inner.index)
      ELSE IF token.type = "LEFT_PAREN"
      THEN LET inner == parseImplication(tokens, index + 1)
           IN IF inner.error # "none" THEN inner
              ELSE IF inner.index > Len(tokens) THEN ParseError("TypeError", inner.index)
              ELSE IF tokens[inner.index].type # "RIGHT_PAREN"
                   THEN ParseError("MissingCloseParen", inner.index)
                   ELSE Parsed(inner.formula, inner.index + 1)
      ELSE IF token.type = "PROPOSITION"
      THEN Parsed(Atom(token.value), index + 1)
      ELSE ParseError("UnexpectedToken", index)

\* while (peek().type === 'AND') { advance(); right = parseUnary(); ... }
conjunctionLoop(tokens, left, index) ==
    IF index > Len(tokens) THEN ParseError("TypeError", index)
    ELSE IF tokens[index].type = "AND"
    THEN LET right == parseUnary(tokens, index + 1)
         IN IF right.error # "none" THEN right
            ELSE conjunctionLoop(tokens, Binary(tokens[index].type, left, right.formula),
                                 right.index)
    ELSE Parsed(left, index)

parseConjunction(tokens, index) ==
    LET left == parseUnary(tokens, index)
    IN IF left.error # "none" THEN left
       ELSE conjunctionLoop(tokens, left.formula, left.index)

\* while (peek().type === 'OR') { advance(); right = parseConjunction(); ... }
disjunctionLoop(tokens, left, index) ==
    IF index > Len(tokens) THEN ParseError("TypeError", index)
    ELSE IF tokens[index].type = "OR"
    THEN LET right == parseConjunction(tokens, index + 1)
         IN IF right.error # "none" THEN right
            ELSE disjunctionLoop(tokens, Binary(tokens[index].type, left, right.formula),
                                 right.index)
    ELSE Parsed(left, index)

parseDisjunction(tokens, index) ==
    LET left == parseConjunction(tokens, index)
    IN IF left.error # "none" THEN left
       ELSE disjunctionLoop(tokens, left.formula, left.index)

\* Mutant: the right operand is a disjunction, which chains IMPLIES to the left.
implicationLoop_LeftAssociative(tokens, left, index) ==
    IF index > Len(tokens) THEN ParseError("TypeError", index)
    ELSE IF tokens[index].type = "IMPLIES"
    THEN LET right == parseDisjunction(tokens, index + 1)
         IN IF right.error # "none" THEN right
            ELSE implicationLoop(tokens, Implies(left, right.formula), right.index)
    ELSE Parsed(left, index)

\* while (peek().type === 'IMPLIES') { advance(); right = parseImplication(); ... }
implicationLoop(tokens, left, index) ==
    IF index > Len(tokens) THEN ParseError("TypeError", index)
    ELSE IF tokens[index].type = "IMPLIES"
    THEN LET right == parseImplication(tokens, index + 1)
         IN IF right.error # "none" THEN right
            ELSE implicationLoop(tokens, Implies(left, right.formula), right.index)
    ELSE Parsed(left, index)

parseImplication(tokens, index) ==
    LET left == parseDisjunction(tokens, index)
    IN IF left.error # "none" THEN left
       ELSE implicationLoop(tokens, left.formula, left.index)

\* Mutant: the EOF is consumed with advance() once it has been checked.
parse_ConsumesEOF(tokens) ==
    LET top == parseImplication(tokens, 1)
    IN IF top.error # "none" THEN top
       ELSE IF top.index > Len(tokens) THEN ParseError("TypeError", top.index)
       ELSE IF tokens[top.index].type # "EOF" THEN ParseError("TrailingInput", top.index)
       ELSE Parsed(top.formula, top.index + 1)

\* Mutant: the check for EOF after the top-level formula is left out.
parse_NoEOFCheck(tokens) == parseImplication(tokens, 1)

parse(tokens) ==
    LET top == parseImplication(tokens, 1)
    IN IF top.error # "none" THEN top
       ELSE IF top.index > Len(tokens) THEN ParseError("TypeError", top.index)
       ELSE IF tokens[top.index].type # "EOF" THEN ParseError("TrailingInput", top.index)
       ELSE top

(***************************************************************************)
(* The parser run on its own, as runTest does: tokenize the formula        *)
(* string, then parse the tokens; either step may throw.                   *)
(***************************************************************************)
FormulaChars == {"P", "~", Wedge, Vee, Arrow, "(", ")"}

AllChars == FormulaChars \cup {"Q", "R", "-", ">", " ", NotSign, "x", "1", "/", "\\"}

\* "P /\\ (Q \\/ ~R) -> S", the input of runTest.
testInput ==
    <<"P", " ", "/", "\\", " ", "(", "Q", " ", "\\", "/", " ", "~", "R", ")",
      " ", "-", ">", " ", "S">>

\* Strings given as examples of precedence and associativity.
ExampleStrings ==
    { <<"P", " ", Vee, " ", "Q", " ", Wedge, " ", "R">>,
      <<"P", " ", "-", ">", " ", "Q", " ", "-", ">", " ", "R">>,
      <<"P", " ", Wedge, " ", "Q", " ", Wedge, " ", "R">>,
      <<"~", "~", "P">>,
      testInput }

FormulaStrings ==
    SeqsUpTo(FormulaChars, MaxFormulaLen) \cup SeqsUpTo(AllChars, MaxAnyLen)
        \cup ExampleStrings

ParseInit ==
    /\ state = INITIAL_PROOF_STATE
    /\ call = NoCall
    /\ client = NoClient
    /\ \E formulaString \in FormulaStrings :
          parser = [NoParse EXCEPT !.stage = "received",
                                   !.formulaString = formulaString]

\* const tokens = tokenize(testInput)
RunTokenize ==
    /\ parser.stage = "received"
    /\ LET lexed == tokenize(parser.formulaString)
       IN parser' = [parser EXCEPT
                        !.stage = IF lexed.error = "none" THEN "tokenized" ELSE "failed",
                        !.tokens = lexed.tokens,
                        !.error = lexed.error,
                        !.position = lexed.position]
    /\ UNCHANGED <<state, call, client>>

\* const ast = parse(tokens)
RunParse ==
    /\ parser.stage = "tokenized"
    /\ LET top == parse(parser.tokens)
       IN parser' = [parser EXCEPT
                        !.stage = IF top.error = "none" THEN "parsed" ELSE "failed",
                        !.error = top.error,
                        !.formula = top.formula,
                        !.index = top.index]
    /\ UNCHANGED <<state, call, client>>

ParseNext == RunTokenize \/ RunParse

ParseSpec == ParseInit /\ [][ParseNext]_vars

(***************************************************************************)
(* The grammar the parser is to implement, stated on token sequences       *)
(* (without the EOF): four levels, tightest first.                         *)
(*   unary       ::= PROPOSITION | NOT unary | ( implication )             *)
(*   conjunction ::= unary | conjunction AND unary                         *)
(*   disjunction ::= conjunction | disjunction OR conjunction              *)
(*   implication ::= disjunction | disjunction IMPLIES implication         *)
(***************************************************************************)
RECURSIVE IsImplication(_, _)
RECURSIVE IsDisjunction(_, _)
RECURSIVE IsConjunction(_, _)
RECURSIVE IsUnary(_, _)

IsUnary(ts, t) ==
    /\ Len(ts) >= 1
    /\ \/ Len(ts) = 1 /\ ts[1].type = "PROPOSITION" /\ t = Atom(ts[1].value)
       \/ ts[1].type = "NOT" /\ t.type = "NOT" /\ IsUnary(Tail(ts), t.formula)
       \/ /\ Len(ts) >= 3
          /\ ts[1].type = "LEFT_PAREN"
          /\ ts[Len(ts)].type = "RIGHT_PAREN"
          /\ IsImplication(SubSeq(ts, 2, Len(ts) - 1), t)

IsConjunction(ts, t) ==
    \/ IsUnary(ts, t)
    \/ /\ t.type = "BINARY"
       /\ t.connective = "AND"
       /\ \E k \in 2..(Len(ts) - 1) :
             /\ ts[k].type = "AND"
             /\ IsConjunction(SubSeq(ts, 1, k - 1), t.left)
             /\ IsUnary(SubSeq(ts, k + 1, Len(ts)), t.right)

IsDisjunction(ts, t) ==
    \/ IsConjunction(ts, t)
    \/ /\ t.type = "BINARY"
       /\ t.connective = "OR"
       /\ \E k \in 2..(Len(ts) - 1) :
             /\ ts[k].type = "OR"
             /\ IsDisjunction(SubSeq(ts, 1, k - 1), t.left)
             /\ IsConjunction(SubSeq(ts, k + 1, Len(ts)), t.right)

IsImplication(ts, t) ==
    \/ IsDisjunction(ts, t)
    \/ /\ t.type = "BINARY"
       /\ t.connective = "IMPLIES"
       /\ \E k \in 2..(Len(ts) - 1) :
             /\ ts[k].type = "IMPLIES"
             /\ IsDisjunction(SubSeq(ts, 1, k - 1), t.left)
             /\ IsImplication(SubSeq(ts, k + 1, Len(ts)), t.right)

ParseDone == parser.stage \in {"parsed", "failed"}

R == Atom("R")

\* C20: every token sequence parse accepts is parsed by the grammar above: NOT
\* binds tighter than AND, AND than OR, OR than IMPLIES, AND and OR chain to
\* the left, IMPLIES to the right, NOT nests and a parenthesised expression is
\* a unit; the four example strings parse to the trees given.
C20_PrecedenceAndAssociativity ==
    /\ parser.stage = "parsed" =>
          IsImplication(SubSeq(parser.tokens, 1, Len(parser.tokens) - 1), parser.formula)
    /\ (ParseDone /\ parser.formulaString = <<"P", " ", Vee, " ", "Q", " ", Wedge, " ", "R">>)
          => parser.formula = Or(P, And(Q, R))
    /\ (ParseDone
          /\ parser.formulaString = <<"P", " ", "-", ">", " ", "Q", " ", "-", ">", " ", "R">>)
          => parser.formula = Implies(P, Implies(Q, R))
    /\ (ParseDone /\ parser.formulaString = <<"P", " ", Wedge, " ", "Q", " ", Wedge, " ", "R">>)
          => parser.formula = And(And(P, Q), R)
    /\ (ParseDone /\ parser.formulaString = <<"~", "~", "P">>)
          => parser.formula = Not(Not(P))

\* An implication chain without parentheses, parsed to the right.
C20_Witness ==
    /\ parser.stage = "parsed"
    /\ parser.formulaString = <<"P", Arrow, "P", Arrow, "P">>
    /\ parser.formula = Implies(P, Implies(P, P))

(***************************************************************************)
(* The same grammar as a recogniser: which token sequences (without the    *)
(* EOF) are formulas at each level.                                        *)
(***************************************************************************)
RECURSIVE ImplicationTokens(_)
RECURSIVE DisjunctionTokens(_)
RECURSIVE ConjunctionTokens(_)
RECURSIVE UnaryTokens(_)

UnaryTokens(ts) ==
    /\ Len(ts) >= 1
    /\ \/ Len(ts) = 1 /\ ts[1].type = "PROPOSITION"
       \/ ts[1].type = "NOT" /\ UnaryTokens(Tail(ts))
       \/ /\ Len(ts) >= 3
          /\ ts[1].type = "LEFT_PAREN"
          /\ ts[Len(ts)].type = "RIGHT_PAREN"
          /\ ImplicationTokens(SubSeq(ts, 2, Len(ts) - 1))

ConjunctionTokens(ts) ==
    \/ UnaryTokens(ts)
    \/ \E k \in 2..(Len(ts) - 1) :
          /\ ts[k].type = "AND"
          /\ ConjunctionTokens(SubSeq(ts, 1, k - 1))
          /\ UnaryTokens(SubSeq(ts, k + 1, Len(ts)))

DisjunctionTokens(ts) ==
    \/ ConjunctionTokens(ts)
    \/ \E k \in 2..(Len(ts) - 1) :
          /\ ts[k].type = "OR"
          /\ DisjunctionTokens(SubSeq(ts, 1, k - 1))
          /\ ConjunctionTokens(SubSeq(ts, k + 1, Len(ts)))

ImplicationTokens(ts) ==
    \/ DisjunctionTokens(ts)
    \/ \E k \in 2..(Len(ts) - 1) :
          /\ ts[k].type = "IMPLIES"
          /\ DisjunctionTokens(SubSeq(ts, 1, k - 1))
          /\ ImplicationTokens(SubSeq(ts, k + 1, Len(ts)))

\* parse has run (tokenize succeeded) and has returned or thrown.
ParseRan == ParseDone /\ parser.tokens # <<>>

ParseFailed == ParseRan /\ parser.stage = "failed"

\* The token parse stopped at (1-based), and the tokens without the EOF.
StoppedAt == parser.tokens[parser.index]

Body == SubSeq(parser.tokens, 1, Len(parser.tokens) - 1)

StartsOperand(token) == token.type \in {"NOT", "LEFT_PAREN", "PROPOSITION"}

\* An operand is expected at index i: at the start, or after a connective,
\* a NOT or an opening parenthesis.
OperandExpectedAt(i) ==
    \/ i = 1
    \/ parser.tokens[i - 1].type \in {"NOT", "LEFT_PAREN", "AND", "OR", "IMPLIES"}

FailsWith(formulaString, kind) ==
    (ParseDone /\ parser.formulaString = formulaString) =>
        /\ ParseFailed
        /\ parser.error = kind
        /\ parser.formula = NoFormula

\* C21: parse fails exactly on the token sequences that are not formulas of
\* the grammar, and then returns no tree; TrailingInput: a complete formula is
\* followed by a token other than EOF; MissingCloseParen: a parenthesised
\* formula is followed by a token other than RIGHT_PAREN; UnexpectedToken: an
\* operand is expected and the token cannot start one; with the examples
\* 'P Q', 'PQ', 'P )', '(P', '', 'P /\', '/\ P', '()'.
C21_ParserErrors ==
    /\ ParseRan => (ParseFailed <=> ~ImplicationTokens(Body))
    /\ ParseFailed =>
          /\ parser.formula = NoFormula
          /\ parser.error \in {"TrailingInput", "MissingCloseParen", "UnexpectedToken"}
          /\ parser.error = "TrailingInput" =>
                /\ StoppedAt.type # "EOF"
                /\ ImplicationTokens(SubSeq(parser.tokens, 1, parser.index - 1))
          /\ parser.error = "MissingCloseParen" =>
                /\ StoppedAt.type # "RIGHT_PAREN"
                /\ \E open \in 1..(parser.index - 2) :
                      /\ parser.tokens[open].type = "LEFT_PAREN"
                      /\ ImplicationTokens(SubSeq(parser.tokens, open + 1, parser.index - 1))
          /\ parser.error = "UnexpectedToken" =>
                /\ ~StartsOperand(StoppedAt)
                /\ OperandExpectedAt(parser.index)
    /\ FailsWith(<<"P", " ", "Q">>, "TrailingInput")
    /\ FailsWith(<<"P", "Q">>, "TrailingInput")
    /\ FailsWith(<<"P", " ", ")">>, "TrailingInput")
    /\ FailsWith(<<"(", "P">>, "MissingCloseParen")
    /\ FailsWith(<<>>, "UnexpectedToken")
    /\ FailsWith(<<"P", " ", Wedge>>, "UnexpectedToken")
    /\ FailsWith(<<Wedge, " ", "P">>, "UnexpectedToken")
    /\ FailsWith(<<"(", ")">>, "UnexpectedToken")

\* A complete formula followed by a closing parenthesis that nothing opened.
C21_Witness ==
    /\ ParseFailed
    /\ parser.formulaString = <<"P", Wedge, "P", ")">>
    /\ parser.error = "TrailingInput"
    /\ parser.index = 4

\* tokenize has returned a token sequence.
LexSucceeded == parser.stage = "tokenized" \/ ParseRan

\* tokenize has thrown.
LexFailed == parser.stage = "failed" /\ ~ParseRan

\* The token type that goes with a token's text.
TypeOfValue(value) ==
    IF value = "(" THEN "LEFT_PAREN"
    ELSE IF value = ")" THEN "RIGHT_PAREN"
    ELSE IF value \in {"~", NotSign} THEN "NOT"
    ELSE IF value = Wedge THEN "AND"
    ELSE IF value = Vee THEN "OR"
    ELSE IF value \in {Arrow, "->"} THEN "IMPLIES"
    ELSE IF IsUpperCase(value) THEN "PROPOSITION"
    ELSE "NONE"

\* The characters a token sequence was read from, whitespace apart.
RECURSIVE Spelling(_)
Spelling(ts) ==
    IF ts = <<>> THEN <<>>
    ELSE (IF Head(ts).value = "->" THEN <<"-", ">">> ELSE <<Head(ts).value>>)
            \o Spelling(Tail(ts))

NotWhitespace(char) == ~IsWhitespace(char)

\* C22: when tokenize succeeds the sequence is non-empty, ends with EOF and
\* has no other EOF; the tokens before it spell the input without its
\* whitespace, in order, one token per character except one IMPLIES token for
\* the two characters '->', and each token has the type of its text.
C22_LexerOutputShape ==
    LexSucceeded =>
        /\ Len(parser.tokens) >= 1
        /\ parser.tokens[Len(parser.tokens)] = EOF
        /\ \A i \in 1..(Len(parser.tokens) - 1) :
              /\ parser.tokens[i].type # "EOF"
              /\ parser.tokens[i].type = TypeOfValue(parser.tokens[i].value)
        /\ Spelling(Body) = SelectSeq(parser.formulaString, NotWhitespace)

\* Whitespace, uppercase letters and the two-character arrow in one input.
C22_Witness ==
    /\ parser.stage = "tokenized"
    /\ parser.formulaString = <<"P", " ", "-", ">", " ", "Q", " ", "-", ">", " ", "R">>
    /\ parser.tokens = <<Token("PROPOSITION", "P"), Token("IMPLIES", "->"),
                         Token("PROPOSITION", "Q"), Token("IMPLIES", "->"),
                         Token("PROPOSITION", "R"), EOF>>

\* The character at 1-based position i of input is one tokenize takes: alone,
\* as the '-' of an arrow, or as the '>' that the '-' before it takes along.
Accepted(input, i) ==
    \/ input[i] \in {" ", "(", ")", "~", NotSign, Wedge, Vee, Arrow}
    \/ IsUpperCase(input[i])
    \/ input[i] = "-" /\ i < Len(input) /\ input[i + 1] = ">"
    \/ input[i] = ">" /\ i > 1 /\ input[i - 1] = "-"

Offending(input) == {i \in 1..Len(input) : ~Accepted(input, i)}

FirstOffending(input) ==
    CHOOSE i \in Offending(input) : \A j \in Offending(input) : i <= j

FailsToLex(formulaString) ==
    (parser.stage # "received" /\ parser.formulaString = formulaString) =>
        LexFailed /\ parser.tokens = <<>>

S == Atom("S")

\* C24: the input of runTest, 'P /\ (Q \/ ~R) -> S' with the connectives
\* written as the character pairs '/\' and '\/', tokenizes and parses to
\* Implies(And(P, Or(Q, Not(R))), S).
C24_ASCIIConnectives ==
    (parser.stage # "received" /\ parser.formulaString = testInput) =>
        /\ LexSucceeded
        /\ ParseDone => (parser.stage = "parsed"
                           /\ parser.formula = Implies(And(P, Or(Q, Not(R))), S))

(***************************************************************************)
(* Selection order, discharge and depth.                                   *)
(***************************************************************************)
\* The same call with the two selected ids in the other order.
SwappedCall == applyRule(call.input, call.rule, SwappedIds, call.newFormulaAst)

\* C25: for MP and DS with two ids selected, the call with the ids swapped
\* fails when this one fails (in the same way) and succeeds when this one
\* succeeds, and then appends a step with the same formula and depth.
C25_BothOrdersAreTried ==
    (Called /\ call.rule \in {"MP", "DS"} /\ Len(call.selectedStepIds) = 2) =>
        /\ SwappedCall.outcome = call.result.outcome
        /\ Succeeded =>
              /\ Last(SwappedCall.newState.currentSteps).formula = AppendedStep.formula
              /\ Last(SwappedCall.newState.currentSteps).depth = AppendedStep.depth

\* DS succeeded with the negation selected first and at another depth than
\* the disjunction.
C25_Witness ==
    /\ TwoStepsSelected("DS")
    /\ Succeeded
    /\ IsOr(SelectedStep(2))
    /\ SelectedStep(1).depth # SelectedStep(2).depth
    /\ SwappedCall.outcome = "ok"

\* C26: II with two ids selected returns the same result with the ids
\* swapped: the same failure, or the same state, that is the same step marked
\* discharged and the same appended step (formula, justification
\* <<assumption id, conclusion id>>, depth).
C26_IIIsOrderIndependent ==
    (Called /\ call.rule = "II" /\ Len(call.selectedStepIds) = 2) =>
        /\ SwappedCall = call.result
        /\ Succeeded =>
              /\ Last(SwappedCall.newState.currentSteps) = AppendedStep
              /\ \A i \in 1..Len(call.input.currentSteps) :
                    SwappedCall.newState.currentSteps[i].isDischarged
                        = call.result.newState.currentSteps[i].isDischarged

\* Two different steps with the same tag, the later one selected first.
C26_Witness ==
    /\ TwoStepsSelected("II")
    /\ Succeeded
    /\ (SelectedStep(1).rule = "ASSUME") = (SelectedStep(2).rule = "ASSUME")
    /\ SelectedStep(1).id > SelectedStep(2).id
    /\ AppendedStep.justification = SwappedIds

Discharged(st) ==
    {i \in 1..Len(st.currentSteps) : st.currentSteps[i].isDischarged = "true"}

\* The II steps of st that cite the step at index i as their assumption.
DischargedBy(st, i) ==
    {k \in 1..Len(st.currentSteps) :
        /\ st.currentSteps[k].rule = "II"
        /\ st.currentSteps[k].justification[1] = st.currentSteps[i].id}

\* C27 as stated: every step with isDischarged = true has rule ASSUME.
C27_OnlyAssumptionsAreDischarged ==
    \A i \in Discharged(state) : state.currentSteps[i].rule = "ASSUME"

\* C27 amended: a step with isDischarged = true has rule ASSUME, or is the
\* assumption of an II step whose conclusion is not tagged ASSUME either and
\* has no smaller id; an II call on exactly one ASSUME step and one other
\* step marks the ASSUME step.
C27_DischargedIsAssumptionOrFallback ==
    /\ \A i \in Discharged(state) :
          \/ state.currentSteps[i].rule = "ASSUME"
          \/ \E k \in DischargedBy(state, i) :
                LET conclusionStep ==
                        find(state.currentSteps, state.currentSteps[k].justification[2])
                IN /\ conclusionStep.rule # "ASSUME"
                   /\ state.currentSteps[i].id <= conclusionStep.id
    /\ (TwoStepsSelected("II")
          /\ (SelectedStep(1).rule = "ASSUME") # (SelectedStep(2).rule = "ASSUME")) =>
          /\ Succeeded
          /\ \A i \in FlagChanged : call.input.currentSteps[i].rule = "ASSUME"

\* A derived step stands discharged next to the II step that cites it.
C27_Witness ==
    \E i \in Discharged(state) :
        /\ state.currentSteps[i].rule # "ASSUME"
        /\ DischargedBy(state, i) # {}

\* C28: a step with isDischarged = true keeps it in the state every
\* successful call returns and in every later state, and every such step is
\* the first justification entry of an II step of the same state.
C28_DischargeIsMonotoneAndAccounted ==
    /\ [](/\ \A i \in Discharged(state) : DischargedBy(state, i) # {}
          /\ Succeeded =>
                /\ Discharged(call.input) \subseteq Discharged(call.result.newState)
                /\ \A i \in Discharged(call.result.newState) :
                      DischargedBy(call.result.newState, i) # {})
    /\ [][Discharged(state) \subseteq Discharged(state')]_vars

\* A second step is discharged while an earlier one stays discharged.
C28_Witness ==
    /\ Succeeded
    /\ call.rule = "II"
    /\ Discharged(call.input) # {}
    /\ FlagChanged # {}
    /\ state = call.input

DischargeFlags == {"undefined", "false", "true"}

\* st with every step at depth 0, or one level deeper, and carrying flag.
Flattened(st, flag) ==
    [st EXCEPT !.currentSteps =
        [i \in 1..Len(st.currentSteps) |->
            [st.currentSteps[i] EXCEPT !.depth = 0, !.isDischarged = flag]]]

Deepened(st, flag) ==
    [st EXCEPT !.currentSteps =
        [i \in 1..Len(st.currentSteps) |->
            [st.currentSteps[i] EXCEPT !.depth = @ + 1, !.isDischarged = flag]]]

\* States that differ from st in depth and isDischarged values only.
ScopeVariants(st) ==
    {Flattened(st, flag) : flag \in DischargeFlags}
        \cup {Deepened(st, flag) : flag \in DischargeFlags}

\* The assumption II chose in this call.
ChosenAssumption == find(call.input.currentSteps, AppendedStep.justification[1])

\* C29: the same call on a state that differs only in the depth and
\* isDischarged values of its steps fails in the same way or succeeds as well,
\* and then appends a step with the same formula and justification; so a
\* discharged step is selectable like any other.
C29_NoScopeEnforcement ==
    Called =>
        \A other \in ScopeVariants(call.input) :
            LET result == applyRule(other, call.rule, call.selectedStepIds,
                                    call.newFormulaAst)
            IN /\ result.outcome = call.result.outcome
               /\ Succeeded =>
                     /\ Last(result.newState.currentSteps).formula = AppendedStep.formula
                     /\ Last(result.newState.currentSteps).justification
                           = AppendedStep.justification
                     /\ Last(result.newState.currentSteps).rule = AppendedStep.rule

\* II discharges again an assumption that an earlier II had discharged.
C29_Witness ==
    /\ Succeeded
    /\ call.rule = "II"
    /\ ChosenAssumption.rule = "ASSUME"
    /\ ChosenAssumption.isDischarged = "true"
    /\ FlagChanged = {}

Depths(st) == {st.currentSteps[i].depth : i \in 1..Len(st.currentSteps)}

\* The state grew from a seed whose premise steps all have depth 0.
SeededAtDepthZero(st) == \A i \in 1..Len(st.premises) : st.premises[i].depth = 0

\* C30: a state grown from a seed with all steps at depth 0 has all steps at
\* depth 0; in every state all depths are non-negative integers, and the step
\* a successful call appends is no deeper than the deepest step of its input.
C30_DepthNeverLeavesZero ==
    /\ SeededAtDepthZero(state) => Depths(state) \subseteq {0}
    /\ Depths(state) \subseteq Nat
    /\ Succeeded =>
          /\ Depths(call.result.newState) \subseteq Nat
          /\ \E d \in Depths(call.input) \cup {0} : AppendedStep.depth <= d
          /\ SeededAtDepthZero(call.input) => AppendedStep.depth = 0

\* The fourth step of a proof seeded at depth 0 is derived from derived steps.
C30_Witness ==
    /\ Succeeded
    /\ SeededAtDepthZero(call.input)
    /\ call.rule \in {"MP", "CI", "DS"}
    /\ Len(call.input.currentSteps) >= 3
    /\ SelectedStep(1).rule # "ASSUME"
    /\ AppendedStep.depth = 0

(***************************************************************************)
(* Frame of applyRule, and what the elimination rules may append.          *)
(***************************************************************************)
\* Goals to try in place of the input's.
OtherGoals == {Null, P, Implies(P, Q)}

\* C31: a successful call returns the input's premises and goal, also when II
\* marks a step that premises holds a copy of; the same call on the input
\* with another goal has the same outcome and returns the same state apart
\* from that goal.
C31_PremisesAndGoalUnchanged ==
    /\ Succeeded =>
          /\ call.result.newState.premises = call.input.premises
          /\ call.result.newState.goal = call.input.goal
    /\ Called =>
          \A goal \in OtherGoals :
              LET result == applyRule([call.input EXCEPT !.goal = goal], call.rule,
                                      call.selectedStepIds, call.newFormulaAst)
              IN /\ result.outcome = call.result.outcome
                 /\ Succeeded =>
                       result.newState = [call.result.newState EXCEPT !.goal = goal]

\* II marks the step in currentSteps whose copy in premises stays unmarked,
\* in a state that has a goal.
C31_Witness ==
    /\ Succeeded
    /\ call.rule = "II"
    /\ call.input.goal # Null
    /\ \E i \in FlagChanged :
          /\ i <= Len(call.input.premises)
          /\ call.result.newState.currentSteps[i].isDischarged = "true"
          /\ call.result.newState.premises[i].id = call.input.currentSteps[i].id
          /\ call.result.newState.premises[i].isDischarged = "undefined"

RECURSIVE Subformulas(_)
Subformulas(f) ==
    {f} \cup (IF f.type = "NOT" THEN Subformulas(f.formula)
              ELSE IF f.type = "BINARY"
              THEN Subformulas(f.left) \cup Subformulas(f.right)
              ELSE {})

ProperSubformulas(f) == Subformulas(f) \ {f}

EliminationRules == {"MP", "CE_LEFT", "CE_RIGHT", "DN", "DS"}

IntroductionRules == {"CI", "DI_LEFT", "DI_RIGHT", "II"}

SelectedFormulas ==
    {SelectedStep(k).formula : k \in 1..Len(call.selectedStepIds)}

\* C32: the formula MP, CE_LEFT, CE_RIGHT, DN or DS appends is a proper
\* subformula of a selected step's formula; the formula CI, DI_LEFT, DI_RIGHT
\* or II appends has every selected formula as a proper subformula.
C32_EliminationRulesOnlyExtract ==
    /\ (Succeeded /\ call.rule \in EliminationRules) =>
          \E f \in SelectedFormulas : AppendedStep.formula \in ProperSubformulas(f)
    /\ (Succeeded /\ call.rule \in IntroductionRules) =>
          \A f \in SelectedFormulas : f \in ProperSubformulas(AppendedStep.formula)
    /\ Succeeded => call.rule \in EliminationRules \cup IntroductionRules

\* An elimination rule extracts from a formula that an introduction rule built.
C32_Witness ==
    /\ Succeeded
    /\ call.rule \in {"CE_LEFT", "CE_RIGHT", "MP", "DS", "DN"}
    /\ \E k \in 1..Len(call.selectedStepIds) :
          /\ SelectedStep(k).rule \in IntroductionRules
          /\ AppendedStep.formula \in ProperSubformulas(SelectedStep(k).formula)

\* The same call made to the compiled engine.
CompiledCall ==
    distApplyRule(call.input, call.rule, call.selectedStepIds, call.newFormulaAst)

\* C33: the compiled applyRule returns what the source applyRule returns, the
\* same new state or a failure in both, for every state, rule, selection and
\* secondary formula.
C33_CompiledEngineAgrees ==
    Called =>
        /\ (CompiledCall.outcome = "ok") <=> Succeeded
        /\ CompiledCall.newState = call.result.newState

(***************************************************************************)
(* The parser's use of its token index, the size of its trees, and         *)
(* printing.                                                               *)
(***************************************************************************)
\* What the four parsing functions return when started at token index i.
ParsesFrom(i) ==
    { parseUnary(parser.tokens, i), parseConjunction(parser.tokens, i),
      parseDisjunction(parser.tokens, i), parseImplication(parser.tokens, i) }

\* C34: on the tokens tokenize produced, parse ends with a tree or with an
\* error and no tree; it never reads a token beyond the EOF (which would be a
\* TypeError) and never consumes the EOF: its index ends at the EOF on
\* success and at or before it on failure; each parsing function, started at
\* any token, ends at a larger index when it succeeds and never at a smaller.
C34_ParserTerminationAndBounds ==
    ParseRan =>
        /\ parser.error # "TypeError"
        /\ parser.index \in 1..Len(parser.tokens)
        /\ parser.stage = "parsed" =>
              /\ parser.index = Len(parser.tokens)
              /\ parser.formula.type \in {"ATOM", "NOT", "BINARY"}
        /\ parser.stage = "failed" => parser.formula = NoFormula
        /\ \A i \in 1..Len(parser.tokens) :
              \A returned \in ParsesFrom(i) :
                  /\ returned.error # "TypeError"
                  /\ returned.index \in i..Len(parser.tokens)
                  /\ returned.error = "none" => returned.index > i

\* A parenthesised implication: every parsing function is entered twice.
C34_Witness ==
    /\ parser.stage = "parsed"
    /\ parser.formulaString = <<"(", "P", Arrow, "P", ")">>
    /\ parser.index = 6

RECURSIVE NodeCount(_)
NodeCount(f) ==
    IF f.type = "NOT" THEN 1 + NodeCount(f.formula)
    ELSE IF f.type = "BINARY" THEN 1 + NodeCount(f.left) + NodeCount(f.right)
    ELSE 1

\* C35: the tree of a string that parses has at most as many nodes as there
\* are tokens before the EOF, and those are at most as many as the string
\* has characters.
C35_TreeSizeBoundedByInput ==
    parser.stage = "parsed" =>
        /\ NodeCount(parser.formula) <= Len(parser.tokens) - 1
        /\ Len(parser.tokens) - 1 <= Len(parser.formulaString)

\* A chain without parentheses: one node per character.
C35_Witness ==
    /\ parser.stage = "parsed"
    /\ parser.formulaString = <<"~", "P", Vee, "~", "P">>
    /\ NodeCount(parser.formula) = 5

RECURSIVE formatFormula(_)

\* Mutant: a BINARY formula is printed without its parentheses.
formatFormula_NoParentheses(formula) ==
    IF formula \in {Null, Undefined} THEN <<"E", "r", "r", "o", "r">>
    ELSE IF formula.type = "ATOM" THEN <<formula.name>>
    ELSE IF formula.type = "NOT" THEN <<NotSign>> \o formatFormula(formula.formula)
    ELSE IF formula.type = "BINARY"
    THEN formatFormula(formula.left)
            \o <<" ", (IF formula.connective = "AND" THEN Wedge
                       ELSE IF formula.connective = "OR" THEN Vee ELSE Arrow), " ">>
            \o formatFormula(formula.right)
    ELSE <<"I", "n", "v", "a", "l", "i", "d", " ", "F", "o", "r", "m", "u", "l", "a">>

\* The client's formatFormula: the text shown for a formula, as characters.
formatFormula(formula) ==
    IF formula \in {Null, Undefined} THEN <<"E", "r", "r", "o", "r">>
    ELSE IF formula.type = "ATOM" THEN <<formula.name>>
    ELSE IF formula.type = "NOT" THEN <<NotSign>> \o formatFormula(formula.formula)
    ELSE IF formula.type = "BINARY"
    THEN <<"(">> \o formatFormula(formula.left)
            \o <<" ", (IF formula.connective = "AND" THEN Wedge
                       ELSE IF formula.connective = "OR" THEN Vee ELSE Arrow), " ">>
            \o formatFormula(formula.right) \o <<")">>
    ELSE <<"I", "n", "v", "a", "l", "i", "d", " ", "F", "o", "r", "m", "u", "l", "a">>

\* The formulas with exactly n nodes over the atoms P and Q.
RECURSIVE FormulasOfSize(_)
FormulasOfSize(n) ==
    IF n = 1 THEN {P, Q}
    ELSE {Not(f) : f \in FormulasOfSize(n - 1)}
            \cup UNION { {Binary(connective, left, right) :
                             connective \in {"AND", "OR", "IMPLIES"},
                             left \in FormulasOfSize(k),
                             right \in FormulasOfSize(n - 1 - k)} : k \in 1..(n - 2) }

Formulas == UNION {FormulasOfSize(n) : n \in 1..MaxNodes}

(***************************************************************************)
(* Printing and reading back: the client shows the goal with               *)
(* formatFormula, and the text shown is sent to the parser.                *)
(***************************************************************************)
PrintInit ==
    /\ \E goal \in Formulas : state = [INITIAL_PROOF_STATE EXCEPT !.goal = goal]
    /\ call = NoCall
    /\ parser = NoParse
    /\ client = NoClient

\* proofState.goal ? formatFormula(proofState.goal) : ..., typed into the form.
formatGoal ==
    /\ parser.stage = "idle"
    /\ state.goal # Null
    /\ parser' = [parser EXCEPT !.stage = "received",
                                !.formulaString = formatFormula(state.goal)]
    /\ UNCHANGED <<state, call, client>>

PrintNext == formatGoal \/ RunTokenize \/ RunParse

PrintSpec == PrintInit /\ [][PrintNext]_vars

\* C36: the text formatFormula prints for a formula of atoms, NOT, AND, OR and
\* IMPLIES tokenizes and parses, and the tree returned is the formula.
C36_PrintParseRoundTrip ==
    /\ parser.stage # "failed"
    /\ parser.stage # "idle" => parser.formulaString = formatFormula(state.goal)
    /\ parser.stage = "parsed" => parser.formula = state.goal

\* A formula whose print needs its parentheses to be read back.
C36_Witness ==
    /\ parser.stage = "parsed"
    /\ state.goal = Implies(Implies(P, Q), Not(P))
    /\ parser.formula = state.goal

(***************************************************************************)
(* The client (App): state is proofState, call the apply-rule request in   *)
(* flight with the proofState it was sent with, client the selection and   *)
(* the isLoading flag.  User actions and the completion of the request     *)
(* interleave.                                                             *)
(***************************************************************************)
\* proofState.currentSteps.some(step => proofState.goal &&
\*     JSON.stringify(step.formula) === JSON.stringify(proofState.goal))
isGoalAchieved ==
    \E i \in 1..Len(state.currentSteps) :
        /\ state.goal # Null
        /\ Stringify(state.currentSteps[i].formula) = Stringify(state.goal)

\* The rule buttons, and the selection length each one requires.
ButtonRules == {"MP", "CI", "CE_LEFT", "CE_RIGHT", "DI_LEFT", "DI_RIGHT", "DS", "DN"}

ButtonSelection(rule) == IF rule \in {"MP", "CI", "DS"} THEN 2 ELSE 1

\* disabled={selectedSteps.length !== n || isLoading || isGoalAchieved}
ButtonDisabled(rule) ==
    \/ Len(client.selectedSteps) # ButtonSelection(rule)
    \/ client.isLoading
    \/ isGoalAchieved

\* prev.includes(id) ? prev.filter(i => i !== id) : [...prev, id]
Toggle(prev, id) ==
    IF \E k \in 1..Len(prev) : prev[k] = id
    THEN SelectSeq(prev, LAMBDA i : i # id)
    ELSE Append(prev, id)

ClientInit ==
    /\ state = INITIAL_PROOF_STATE
    /\ call = NoCall
    /\ parser = NoParse
    /\ client = NoClient

\* if (isLoading) return; setSelectedSteps(prev => toggle of id)
handleStepClick ==
    /\ ~client.isLoading
    /\ \E id \in StepIds(state) :
          /\ Len(Toggle(client.selectedSteps, id)) <= MaxSelected
          /\ client' = [client EXCEPT !.selectedSteps = Toggle(@, id)]
    /\ UNCHANGED <<state, call, parser>>

\* A rule button that is not disabled is clicked: setIsLoading(true) and the
\* request leaves with the proofState of this render; the server answers it
\* with applyRule on that state.
callApplyRuleAPI ==
    /\ call = NoCall
    /\ Len(state.currentSteps) < MaxSteps
    /\ \E rule \in ButtonRules :
          /\ ~ButtonDisabled(rule)
          /\ LET newFormulaAst == IF rule \in {"DI_LEFT", "DI_RIGHT"} THEN Q ELSE Undefined
             IN call' = [rule |-> rule, selectedStepIds |-> client.selectedSteps,
                         newFormulaAst |-> newFormulaAst, input |-> state,
                         result |-> applyRule(state, rule, client.selectedSteps,
                                              newFormulaAst)]
    /\ client' = [client EXCEPT !.isLoading = TRUE]
    /\ UNCHANGED <<state, parser>>

\* response.ok && data.success: setProofState(data.newState),
\* setSelectedSteps([]), and finally setIsLoading(false).
ResponseAccepted ==
    /\ call # NoCall
    /\ call.result.outcome = "ok"
    /\ state' = call.result.newState
    /\ client' = [selectedSteps |-> <<>>, isLoading |-> FALSE]
    /\ call' = NoCall
    /\ UNCHANGED parser

\* The server answered 400: an alert, and finally setIsLoading(false).
ResponseRejected ==
    /\ call # NoCall
    /\ call.result.outcome # "ok"
    /\ client' = [client EXCEPT !.isLoading = FALSE]
    /\ call' = NoCall
    /\ UNCHANGED <<state, parser>>

\* Mutant: without the finally block the flag stays set after a failed fetch.
FetchFailed_NoFinally ==
    /\ call # NoCall
    /\ call' = NoCall
    /\ UNCHANGED <<state, parser, client>>

\* fetch threw: the catch block alerts, and finally setIsLoading(false).
FetchFailed ==
    /\ call # NoCall
    /\ client' = [client EXCEPT !.isLoading = FALSE]
    /\ call' = NoCall
    /\ UNCHANGED <<state, parser>>

GoalFormulas == {P, Q}

\* setProofState({ ...proofState, goal: parsedGoalAst })
handleSetGoal ==
    /\ \E parsedGoalAst \in GoalFormulas :
          state' = [state EXCEPT !.goal = parsedGoalAst]
    /\ UNCHANGED <<call, parser, client>>

\* setProofState({ ...INITIAL_PROOF_STATE, goal: proofState.goal }) and
\* setSelectedSteps([])
handleResetProof ==
    /\ state' = [INITIAL_PROOF_STATE EXCEPT !.goal = state.goal]
    /\ client' = [client EXCEPT !.selectedSteps = <<>>]
    /\ UNCHANGED <<call, parser>>

\* handleAddPremise while the request is in flight: the button is not disabled.
handleAddPremiseWhileLoading ==
    /\ call # NoCall
    /\ Len(state.currentSteps) < MaxSteps
    /\ \E parsedAst \in PremiseFormulas :
         state' = [state EXCEPT
                     !.currentSteps = Append(state.currentSteps,
                                             Premise(state.nextId, parsedAst, 0)),
                     !.nextId = state.nextId + 1]
    /\ UNCHANGED <<call, parser, client>>

RequestCompletes == ResponseAccepted \/ ResponseRejected \/ FetchFailed

ClientNext ==
    \/ handleStepClick
    \/ callApplyRuleAPI
    \/ ResponseAccepted
    \/ ResponseRejected
    \/ FetchFailed
    \/ handleSetGoal
    \/ handleResetProof
    \/ handleAddPremise
    \/ handleAddPremiseWhileLoading

ClientSpec == ClientInit /\ [][ClientNext]_vars

\* Every request completes: the fetch resolves or throws.
ClientFairSpec == ClientSpec /\ WF_vars(RequestCompletes)

DerivedSteps(st) ==
    {st.currentSteps[i] : i \in {k \in 1..Len(st.currentSteps) :
                                    st.currentSteps[k].rule # "ASSUME"}}

\* This step starts a request; this step processes the end of one.
RequestStarts == call = NoCall /\ call' # NoCall

RequestEnds == call # NoCall /\ call' = NoCall

GoalIsMet ==
    /\ state.goal # Null
    /\ \E i \in 1..Len(state.currentSteps) : state.currentSteps[i].formula = state.goal

NoRequestWhileAchieved == [][isGoalAchieved => ~RequestStarts]_vars

\* C37: the goal counts as achieved exactly when a goal is set and a step has
\* a formula structurally equal to it; while it is achieved every rule button
\* is disabled, no request starts and no derived step is added.
C37_GoalGating ==
    /\ [](isGoalAchieved <=> GoalIsMet)
    /\ [](isGoalAchieved => \A rule \in ButtonRules : ButtonDisabled(rule))
    /\ NoRequestWhileAchieved
    /\ [][isGoalAchieved => DerivedSteps(state') \subseteq DerivedSteps(state)]_vars

IsPrefix(s, t) == Len(s) <= Len(t) /\ SubSeq(t, 1, Len(s)) = s

\* C38: when the response to a request has been processed, the proof state
\* still has what the user made of it while the request was in flight: the
\* goal they set and the steps they added or reset to, with at most the
\* derived step appended.
C38_NoLostUpdate ==
    [][RequestEnds =>
          /\ state'.goal = state.goal
          /\ IsPrefix(state.currentSteps, state'.currentSteps)
          /\ Len(state'.currentSteps) <= Len(state.currentSteps) + 1]_vars

\* C39: a request that starts sets isLoading, which stays set exactly while
\* the request is in flight and is cleared when it completes, as it
\* eventually does; completion replaces the proof state with the returned one
\* and clears the selection when the server accepted, and changes neither
\* otherwise; while isLoading is set the selection changes only by being
\* cleared, by an accepted response or a reset, never by a step click.
C39_RequestLifecycle ==
    /\ [](client.isLoading <=> call # NoCall)
    /\ [][RequestStarts => client'.isLoading]_vars
    /\ client.isLoading ~> ~client.isLoading
    /\ [][RequestEnds =>
             /\ ~client'.isLoading
             /\ \/ /\ call.result.outcome = "ok"
                   /\ state' = call.result.newState
                   /\ client'.selectedSteps = <<>>
                \/ /\ state' = state
                   /\ client'.selectedSteps = client.selectedSteps
             /\ call.result.outcome # "ok" =>
                   (state' = state /\ client'.selectedSteps = client.selectedSteps)]_vars
    /\ [][(client.isLoading /\ client'.selectedSteps # client.selectedSteps) =>
             /\ client'.selectedSteps = <<>>
             /\ \/ RequestEnds
                \/ state'.currentSteps = INITIAL_PROOF_STATE.currentSteps]_vars

\* A request the server will reject is in flight, two steps selected.
C39_Witness ==
    /\ client.isLoading
    /\ call.result.outcome = "PatternMismatch"
    /\ Len(client.selectedSteps) = 2
    /\ Derived(state)

====
